---- MODULE Spec2Model ----
(***************************************************************************)
(* A model of the key-value node of src/node.py: the Lamport clock, the    *)
(* last-writer-wins store, the request handlers of Node and the per-peer   *)
(* replication threads with their retry loop.                              *)
(*                                                                         *)
(* The specifications of the module:                                       *)
(*   SpecClock  one LamportClock called by concurrent threads, each call   *)
(*              split into the steps the lock protects;                    *)
(*   SpecStore  one KeyValueStore receiving an arbitrary sequence of puts; *)
(*   SpecLocked one KeyValueStore called by concurrent threads, each call  *)
(*              split into the steps the lock protects;                    *)
(*   SpecMerge  one set of tuples put into two empty stores in two orders; *)
(*   Spec       the nodes, their handlers, the replication threads and the *)
(*              requests in flight between them;                           *)
(*   SpecNode   one Node behind its RequestHandler, receiving well-formed  *)
(*              and malformed requests on concurrent handler threads.      *)
(***************************************************************************)
EXTENDS Integers, Sequences, FiniteSets, TLC

None == "none"

VARIABLES
    \* the clock of SpecClock
    ck_time,      \* LamportClock.time
    ck_lock,      \* LamportClock.lock: its holder, or None
    ck_pc,        \* per thread: "idle", "acquire", "read", "write", "return"
    ck_op,        \* per thread: the method it is in
    ck_arg,       \* per thread: received_time of its update call
    ck_tmp,       \* per thread: the value of self.time it has loaded
    ck_returns,   \* the calls that returned, in the order they took effect
    \* the store of SpecStore
    kv,           \* the store of SpecStore
    kv_hist,      \* the puts made on it, in order, each with what it returned
    \* the store of SpecLocked
    ks_store,     \* KeyValueStore.store
    ks_first,     \* what ks_store held before the first call
    ks_lock,      \* KeyValueStore.lock: its holder, or None
    ks_pc,        \* per thread: "idle", "acquire", "compare", "install", "read", "return"
    ks_call,      \* per thread: the call it is in, with its arguments
    ks_ret,       \* per thread: what its call is about to return
    ks_done,      \* the calls that returned, in the order they returned
    \* the two stores of SpecMerge
    mg_set,       \* the tuples to apply
    mg_todo1,     \* those the first store has not received yet
    mg_todo2,     \* those the second store has not received yet
    mg_st1,       \* the first store
    mg_st2,       \* the second store
    \* the nodes of Spec and SpecRetry
    clock,        \* per node: Node.clock.time
    store,        \* per node: Node.store.store
    hs,           \* per node and server thread: the handler it is running
    writes,       \* the /put requests accepted so far, in order, each with what
                  \* store.put returned for it and the writes its node had seen
    th,           \* the replication threads, by <<write, peer>>
    net,          \* the /replicate requests sent and not yet taken up by the peer
    resp,         \* per write: the response handle_put returned, or NoResponse
    failures,     \* the delivery attempts that ended in an exception
    lim,          \* the bounds of the run: the writes and the failures it may hold
    landed,       \* per node: the writes whose /replicate request it has taken up
    \* the node of SpecNode
    nd_clock,     \* Node.clock.time
    nd_store,     \* Node.store.store
    nd_sent,      \* the replication threads the node has started, by what they send
    nd_h,         \* per handler thread: the request it is handling and its locals
    nd_log        \* the requests that are over, in order, each with its response

clockVars == <<ck_time, ck_lock, ck_pc, ck_op, ck_arg, ck_tmp, ck_returns>>

lockedVars == <<ks_store, ks_first, ks_lock, ks_pc, ks_call, ks_ret, ks_done>>

storeVars == <<kv, kv_hist, lockedVars>>

mergeVars == <<mg_set, mg_todo1, mg_todo2, mg_st1, mg_st2>>

nodeVars == <<nd_clock, nd_store, nd_sent, nd_h, nd_log>>

sysVars == <<clock, store, hs, writes, th, net, resp, failures, lim, landed, nodeVars>>

vars == <<clockVars, storeVars, mergeVars, sysVars>>

(***************************************************************************)
(* Bounds of the model.                                                    *)
(***************************************************************************)
MaxCalls == 4        \* clock calls made in SpecClock
MaxReceived == 3     \* largest received_time passed to update in SpecClock
MaxPuts == 3         \* puts made in SpecStore
MaxTuples == 3       \* tuples of the set merged in SpecMerge
MaxTs == 2           \* largest timestamp of a tuple in SpecStore and SpecMerge
MaxStoreCalls == 3   \* calls made on the store of SpecLocked
MaxRequests == 3     \* requests made to the node of SpecNode

ClockThreads == {"t1", "t2"}
HandlerThreads == {"h1", "h2"}
StoreThreads == {"t1", "t2"}
Keys == {"x", "y"}
Values == {"1", "2"}
NodeIds == {"A", "B", "C"}

Max(a, b) == IF a >= b THEN a ELSE b

(***************************************************************************)
(* LamportClock (src/node.py 16-37).                                       *)
(***************************************************************************)

\* self.time += 1
increment(time) == time + 1

\* An update that takes the max and forgets the + 1.
update_no_increment(time, received_time) == Max(time, received_time)

\* An update that counts the message and forgets the received timestamp.
update_local_only(time, received_time) == time + 1

\* An update that leaves the clock as it was.
update_ignored(time, received_time) == time

\* self.time = max(self.time, received_time) + 1
update(time, received_time) == Max(time, received_time) + 1

\* return self.time
get_time(time) == time

ClockInit ==
    /\ ck_time = 0
    /\ ck_lock = None
    /\ ck_pc = [t \in ClockThreads |-> "idle"]
    /\ ck_op = [t \in ClockThreads |-> None]
    /\ ck_arg = [t \in ClockThreads |-> 0]
    /\ ck_tmp = [t \in ClockThreads |-> 0]
    /\ ck_returns = <<>>

ClockCallsStarted ==
    Len(ck_returns) + Cardinality({t \in ClockThreads : ck_pc[t] # "idle"})

\* A thread enters increment(), update(received_time) or get_time().
ClockCall(t) ==
    /\ ck_pc[t] = "idle"
    /\ ClockCallsStarted < MaxCalls
    /\ \E op \in {"increment", "update", "get_time"} :
         \E r \in 0..MaxReceived :
            /\ (op # "update") => r = 0
            /\ ck_op' = [ck_op EXCEPT ![t] = op]
            /\ ck_arg' = [ck_arg EXCEPT ![t] = r]
    /\ ck_pc' = [ck_pc EXCEPT ![t] = "acquire"]
    /\ UNCHANGED <<ck_time, ck_lock, ck_tmp, ck_returns>>
    /\ UNCHANGED <<storeVars, mergeVars, sysVars>>

\* A clock whose methods do not take the lock.
LockFree_unlocked(lock) == TRUE

\* with self.lock: the lock is taken only when no thread holds it.
LockFree(lock) == lock = None

ClockAcquire(t) ==
    /\ ck_pc[t] = "acquire"
    /\ LockFree(ck_lock)
    /\ ck_lock' = t
    /\ ck_pc' = [ck_pc EXCEPT ![t] = IF ck_op[t] = "get_time" THEN "return" ELSE "read"]
    /\ UNCHANGED <<ck_time, ck_op, ck_arg, ck_tmp, ck_returns>>
    /\ UNCHANGED <<storeVars, mergeVars, sysVars>>

\* The load of self.time on the right-hand side of the assignment.
ClockRead(t) ==
    /\ ck_pc[t] = "read"
    /\ ck_tmp' = [ck_tmp EXCEPT ![t] = ck_time]
    /\ ck_pc' = [ck_pc EXCEPT ![t] = "write"]
    /\ UNCHANGED <<ck_time, ck_lock, ck_op, ck_arg, ck_returns>>
    /\ UNCHANGED <<storeVars, mergeVars, sysVars>>

\* The store to self.time.
ClockWrite(t) ==
    /\ ck_pc[t] = "write"
    /\ ck_time' = IF ck_op[t] = "increment"
                  THEN increment(ck_tmp[t])
                  ELSE update(ck_tmp[t], ck_arg[t])
    /\ ck_pc' = [ck_pc EXCEPT ![t] = "return"]
    /\ UNCHANGED <<ck_lock, ck_op, ck_arg, ck_tmp, ck_returns>>
    /\ UNCHANGED <<storeVars, mergeVars, sysVars>>

\* return self.time, evaluated before the with block releases the lock.
ClockReturn(t) ==
    /\ ck_pc[t] = "return"
    /\ ck_returns' = Append(ck_returns,
                            [op |-> ck_op[t], received |-> ck_arg[t],
                             ret |-> get_time(ck_time), thread |-> t])
    /\ ck_lock' = IF ck_lock = t THEN None ELSE ck_lock
    /\ ck_pc' = [ck_pc EXCEPT ![t] = "idle"]
    /\ UNCHANGED <<ck_time, ck_op, ck_arg, ck_tmp>>
    /\ UNCHANGED <<storeVars, mergeVars, sysVars>>

ClockNext ==
    \E t \in ClockThreads :
        \/ ClockCall(t)
        \/ ClockAcquire(t)
        \/ ClockRead(t)
        \/ ClockWrite(t)
        \/ ClockReturn(t)

(***************************************************************************)
(* KeyValueStore (src/node.py 40-69).  self.store is a dict; here it is a  *)
(* function d whose domain is the set of keys the dict holds.              *)
(***************************************************************************)
Entry(value, timestamp, node_id) ==
    [value |-> value, timestamp |-> timestamp, node |-> node_id]

\* self.store = {}
EmptyStore == <<>>

\* What dict.get returns for a key the dict does not hold (Python's None).
NoEntry == [value |-> None, timestamp |-> 0, node |-> None]

\* The comparison written >= instead of >.
Accepts_tie_wins(d, key, timestamp) ==
    \/ key \notin DOMAIN d
    \/ timestamp >= d[key].timestamp

\* The comparison turned around: the older timestamp wins.
Accepts_older_wins(d, key, timestamp) ==
    \/ key \notin DOMAIN d
    \/ timestamp < d[key].timestamp

\* if key not in self.store or timestamp > self.store[key]['timestamp']
Accepts(d, key, timestamp) ==
    \/ key \notin DOMAIN d
    \/ timestamp > d[key].timestamp

\* A put that installs the entry without comparing timestamps.
put_unconditional(d, key, value, timestamp, node_id) ==
    [store |-> [k \in DOMAIN d \cup {key} |->
                  IF k = key THEN Entry(value, timestamp, node_id) ELSE d[k]],
     applied |-> TRUE]

\* KeyValueStore.put: the new dict and the value returned, one step under the lock.
put(d, key, value, timestamp, node_id) ==
    IF Accepts(d, key, timestamp)
    THEN [store |-> [k \in DOMAIN d \cup {key} |->
                        IF k = key THEN Entry(value, timestamp, node_id) ELSE d[k]],
          applied |-> TRUE]
    ELSE [store |-> d, applied |-> FALSE]

\* KeyValueStore.get: self.store.get(key)
get(d, key) == IF key \in DOMAIN d THEN d[key] ELSE NoEntry

\* KeyValueStore.get_all: dict(self.store)
get_all(d) == d

\* Node.handle_get: the entry with status ok, or not_found when get returns None.
handle_get(d, key) ==
    LET data == get(d, key) IN
      IF data # NoEntry
      THEN [status |-> "ok", key |-> key, value |-> data.value,
            timestamp |-> data.timestamp, node |-> data.node]
      ELSE [status |-> "not_found", key |-> key, value |-> None,
            timestamp |-> 0, node |-> None]

Tuples == Keys \X Values \X (1..MaxTs) \X NodeIds

\* A KeyValueStore no thread calls.
LockedIdle ==
    /\ ks_store = EmptyStore
    /\ ks_first = EmptyStore
    /\ ks_lock = None
    /\ ks_pc = <<>>
    /\ ks_call = <<>>
    /\ ks_ret = <<>>
    /\ ks_done = <<>>

StoreInit ==
    /\ kv = EmptyStore
    /\ kv_hist = <<>>
    /\ LockedIdle

\* One call of put with any arguments.
StorePut ==
    /\ Len(kv_hist) < MaxPuts
    /\ \E tu \in Tuples :
         LET r == put(kv, tu[1], tu[2], tu[3], tu[4]) IN
           /\ kv' = r.store
           /\ kv_hist' = Append(kv_hist,
                                [key |-> tu[1], value |-> tu[2], timestamp |-> tu[3],
                                 node |-> tu[4], applied |-> r.applied,
                                 before |-> kv, after |-> r.store])
    /\ UNCHANGED lockedVars
    /\ UNCHANGED <<clockVars, mergeVars, sysVars>>

StoreNext == StorePut

(***************************************************************************)
(* One KeyValueStore called by concurrent threads.  Every method runs in a *)
(* with self.lock block; put is split into the comparison of line 52 and   *)
(* the assignment of lines 53-57, which the lock keeps together.           *)
(***************************************************************************)

\* The arguments of the put calls: the value tells the origin.
PutArgs == {tu \in Tuples : tu[2] = (IF tu[4] = "A" THEN "1" ELSE "2")}

NoCall == [op |-> None, key |-> None, value |-> None, timestamp |-> 0, node |-> None]

\* What a call returns: applied for put, entry for get, data for get_all;
\* midput tells whether a put of another thread stood between its comparison
\* and its assignment when the call read the dict.
NoReturn == [applied |-> FALSE, entry |-> NoEntry, data |-> EmptyStore, midput |-> FALSE]

LockedInit ==
    /\ ks_store \in {EmptyStore, [k \in {"x"} |-> Entry("1", 1, "A")]}
    /\ ks_first = ks_store
    /\ ks_lock = None
    /\ ks_pc = [t \in StoreThreads |-> "idle"]
    /\ ks_call = [t \in StoreThreads |-> NoCall]
    /\ ks_ret = [t \in StoreThreads |-> NoReturn]
    /\ ks_done = <<>>

StoreCallsStarted ==
    Len(ks_done) + Cardinality({t \in StoreThreads : ks_pc[t] # "idle"})

\* A thread enters put(key, value, timestamp, node_id).
LockedCallPut(t) ==
    /\ ks_pc[t] = "idle"
    /\ StoreCallsStarted < MaxStoreCalls
    /\ \E tu \in PutArgs :
         ks_call' = [ks_call EXCEPT ![t] = [op |-> "put", key |-> tu[1], value |-> tu[2],
                                            timestamp |-> tu[3], node |-> tu[4]]]
    /\ ks_pc' = [ks_pc EXCEPT ![t] = "acquire"]
    /\ ks_ret' = [ks_ret EXCEPT ![t] = NoReturn]
    /\ UNCHANGED <<ks_store, ks_first, ks_lock, ks_done, kv, kv_hist>>
    /\ UNCHANGED <<clockVars, mergeVars, sysVars>>

\* A thread enters get(key) or get_all().
LockedCallRead(t) ==
    /\ ks_pc[t] = "idle"
    /\ StoreCallsStarted < MaxStoreCalls
    /\ \E op \in {"get", "get_all"} : \E key \in Keys :
         /\ (op = "get_all") => key = "x"
         /\ ks_call' = [ks_call EXCEPT ![t] = [NoCall EXCEPT !.op = op, !.key = key]]
    /\ ks_pc' = [ks_pc EXCEPT ![t] = "acquire"]
    /\ ks_ret' = [ks_ret EXCEPT ![t] = NoReturn]
    /\ UNCHANGED <<ks_store, ks_first, ks_lock, ks_done, kv, kv_hist>>
    /\ UNCHANGED <<clockVars, mergeVars, sysVars>>

\* A store whose methods do not take the lock.
StoreLockFree_unlocked(lock) == TRUE

\* with self.lock (lines 48, 63, 68): taken only when no thread holds it.
StoreLockFree(lock) == lock = None

LockedAcquire(t) ==
    /\ ks_pc[t] = "acquire"
    /\ StoreLockFree(ks_lock)
    /\ ks_lock' = t
    /\ ks_pc' = [ks_pc EXCEPT ![t] = IF ks_call[t].op = "put" THEN "compare" ELSE "read"]
    /\ UNCHANGED <<ks_store, ks_first, ks_call, ks_ret, ks_done, kv, kv_hist>>
    /\ UNCHANGED <<clockVars, mergeVars, sysVars>>

\* line 52: the condition of the if.
LockedCompare(t) ==
    /\ ks_pc[t] = "compare"
    /\ ks_ret' = [ks_ret EXCEPT ![t].applied =
                     Accepts(ks_store, ks_call[t].key, ks_call[t].timestamp)]
    /\ ks_pc' = [ks_pc EXCEPT ![t] = IF ks_ret'[t].applied THEN "install" ELSE "return"]
    /\ UNCHANGED <<ks_store, ks_first, ks_lock, ks_call, ks_done, kv, kv_hist>>
    /\ UNCHANGED <<clockVars, mergeVars, sysVars>>

\* lines 53-57: self.store[key] = {...}
LockedInstall(t) ==
    /\ ks_pc[t] = "install"
    /\ LET c == ks_call[t] IN
         ks_store' = [k \in DOMAIN ks_store \cup {c.key} |->
                        IF k = c.key THEN Entry(c.value, c.timestamp, c.node)
                        ELSE ks_store[k]]
    /\ ks_pc' = [ks_pc EXCEPT ![t] = "return"]
    /\ UNCHANGED <<ks_first, ks_lock, ks_call, ks_ret, ks_done, kv, kv_hist>>
    /\ UNCHANGED <<clockVars, mergeVars, sysVars>>

\* lines 64 and 69: self.store.get(key), dict(self.store)
LockedRead(t) ==
    /\ ks_pc[t] = "read"
    /\ ks_ret' = [ks_ret EXCEPT
                    ![t].entry = IF ks_call[t].op = "get"
                                 THEN get(ks_store, ks_call[t].key) ELSE NoEntry,
                    ![t].data = IF ks_call[t].op = "get_all"
                                THEN get_all(ks_store) ELSE EmptyStore,
                    ![t].midput = \E u \in StoreThreads : ks_pc[u] = "install"]
    /\ ks_pc' = [ks_pc EXCEPT ![t] = "return"]
    /\ UNCHANGED <<ks_store, ks_first, ks_lock, ks_call, ks_done, kv, kv_hist>>
    /\ UNCHANGED <<clockVars, mergeVars, sysVars>>

\* The return statement and the end of the with block.
LockedReturn(t) ==
    /\ ks_pc[t] = "return"
    /\ ks_done' = Append(ks_done, [call |-> ks_call[t], ret |-> ks_ret[t], thread |-> t])
    /\ ks_lock' = IF ks_lock = t THEN None ELSE ks_lock
    /\ ks_pc' = [ks_pc EXCEPT ![t] = "idle"]
    /\ UNCHANGED <<ks_store, ks_first, ks_call, ks_ret, kv, kv_hist>>
    /\ UNCHANGED <<clockVars, mergeVars, sysVars>>

LockedNext ==
    \E t \in StoreThreads :
        \/ LockedCallPut(t)
        \/ LockedCallRead(t)
        \/ LockedAcquire(t)
        \/ LockedCompare(t)
        \/ LockedInstall(t)
        \/ LockedRead(t)
        \/ LockedReturn(t)

(***************************************************************************)
(* The same set of tuples put into two empty stores, each in its own order.*)
(***************************************************************************)

MergeInit ==
    /\ mg_set \in {S \in SUBSET Tuples : Cardinality(S) <= MaxTuples}
    /\ mg_todo1 = mg_set
    /\ mg_todo2 = mg_set
    /\ mg_st1 = EmptyStore
    /\ mg_st2 = EmptyStore

MergePut1 ==
    \E tu \in mg_todo1 :
        /\ mg_st1' = put(mg_st1, tu[1], tu[2], tu[3], tu[4]).store
        /\ mg_todo1' = mg_todo1 \ {tu}
        /\ UNCHANGED <<mg_set, mg_todo2, mg_st2>>
        /\ UNCHANGED <<clockVars, storeVars, sysVars>>

MergePut2 ==
    \E tu \in mg_todo2 :
        /\ mg_st2' = put(mg_st2, tu[1], tu[2], tu[3], tu[4]).store
        /\ mg_todo2' = mg_todo2 \ {tu}
        /\ UNCHANGED <<mg_set, mg_todo1, mg_st1>>
        /\ UNCHANGED <<clockVars, storeVars, sysVars>>

MergeNext == MergePut1 \/ MergePut2

(***************************************************************************)
(* The nodes (src/node.py 72-187) and the server that runs their handlers  *)
(* (src/node.py 190-304).                                                  *)
(***************************************************************************)
MaxWrites == 2       \* /put requests accepted in a run of Spec
MaxFailures == 1     \* delivery attempts that end in an exception in a run of Spec
RetryWrites == 1     \* /put requests accepted in a run of SpecRetry
RetryFailures == 3   \* delivery attempts that end in an exception in a run of SpecRetry

\* HTTPServer (not ThreadingHTTPServer): serve_forever handles one request at a
\* time, so a node runs one handler at a time.
ServerThreads == 1

\* max_retries = 3
max_retries == 3

\* --delay-seconds, default=5
delay_seconds == 5

\* Node.peers: every node is started with the other nodes as --peers.
Peers(n) == NodeIds \ {n}

\* Node.delay_peer as set by main from --delay-peer: A delays C, the others nobody.
delay_peer(n) == IF n = "A" THEN "C" ELSE None

\* 2 ** attempt
Pow2(a) == IF a = 0 THEN 1 ELSE IF a = 1 THEN 2 ELSE IF a = 2 THEN 4 ELSE 8

Idle ==
    [pc |-> "idle", wid |-> 0, att |-> 0, key |-> None, value |-> None,
     timestamp |-> 0, source_node |-> None, local_time |-> 0, applied |-> FALSE]

\* A Node no request reaches.
NodeIdle ==
    /\ nd_clock = 0
    /\ nd_store = EmptyStore
    /\ nd_sent = {}
    /\ nd_h = <<>>
    /\ nd_log = <<>>

SysInitT(T, maxWrites, maxFailures) ==
    /\ NodeIdle
    /\ lim = [writes |-> maxWrites, failures |-> maxFailures]
    /\ landed = [n \in NodeIds |-> {}]
    /\ clock = [n \in NodeIds |-> 0]
    /\ store = [n \in NodeIds |-> EmptyStore]
    /\ hs = [n \in NodeIds |-> [w \in 1..T |-> Idle]]
    /\ writes = <<>>
    /\ th = <<>>
    /\ net = {}
    /\ resp = <<>>
    /\ failures = 0

SysInit == SysInitT(ServerThreads, MaxWrites, MaxFailures)

RetryInit == SysInitT(ServerThreads, RetryWrites, RetryFailures)

\* The value the i-th /put request of a run carries: the store never inspects a
\* value, so the requests are told apart by giving each its own.
RequestValue(i) == IF i = 1 THEN "1" ELSE "2"

Threads == DOMAIN th

Workers(n) == DOMAIN hs[n]

\* No response yet.
NoResponse == [status |-> None, timestamp |-> 0, node |-> None]

NoResult == [status |-> None, applied |-> FALSE]

\* handle_put, line 86: timestamp = self.clock.increment()
HandlePutClock(n, w, key, value) ==
    /\ hs[n][w].pc = "idle"
    /\ Len(writes) < lim.writes
    /\ clock' = [clock EXCEPT ![n] = increment(clock[n])]
    /\ hs' = [hs EXCEPT ![n][w] =
                [Idle EXCEPT !.pc = "put_store", !.wid = Len(writes) + 1,
                             !.key = key, !.value = value,
                             !.timestamp = get_time(clock'[n])]]
    /\ writes' = Append(writes, [node |-> n, key |-> key, value |-> value,
                                 timestamp |-> get_time(clock'[n]),
                                 stored |-> FALSE, applied |-> FALSE,
                                 seen |-> landed[n]])
    /\ resp' = Append(resp, NoResponse)
    /\ UNCHANGED <<store, th, net, failures, lim, landed>>
    /\ UNCHANGED <<clockVars, storeVars, mergeVars, nodeVars>>

\* handle_put, line 89: self.store.put(key, value, timestamp, self.node_id)
HandlePutStore(n, w) ==
    /\ hs[n][w].pc = "put_store"
    /\ LET h == hs[n][w]
           r == put(store[n], h.key, h.value, h.timestamp, n) IN
         /\ store' = [store EXCEPT ![n] = r.store]
         /\ writes' = [writes EXCEPT ![h.wid].stored = TRUE,
                                     ![h.wid].applied = r.applied]
         /\ hs' = [hs EXCEPT ![n][w].pc = "put_replicate", ![n][w].applied = r.applied]
    /\ UNCHANGED <<clock, th, net, resp, failures, lim, landed>>
    /\ UNCHANGED <<clockVars, storeVars, mergeVars, nodeVars>>

\* _replicate_to_peers, lines 143-145: the delay of the thread for one peer.
DelayFor(n, peer_url) ==
    IF delay_peer(n) # None /\ peer_url = delay_peer(n) THEN delay_seconds ELSE 0

\* A thread as threading.Thread(...).start() leaves it: it sleeps first when its
\* delay is positive (lines 157-159), and makes its first attempt otherwise.
\* data (lines 161-166) is what every attempt of the thread sends.
NewThread(n, key, value, timestamp, delay) ==
    [st |-> IF delay > 0 THEN "delay" ELSE "try",
     attempt |-> 0, delay |-> delay, attempts |-> 0, waits |-> <<>>,
     data |-> [key |-> key, value |-> value, timestamp |-> timestamp,
               source_node |-> n],
     result |-> NoResult]

\* handle_put, line 94: self._replicate_to_peers(key, value, timestamp)
HandlePutReplicate(n, w) ==
    /\ hs[n][w].pc = "put_replicate"
    /\ LET h == hs[n][w] IN
         th' = [t \in Threads \cup {<<h.wid, p>> : p \in Peers(n)} |->
                  IF t \in Threads THEN th[t]
                  ELSE NewThread(n, h.key, h.value, h.timestamp, DelayFor(n, t[2]))]
    /\ hs' = [hs EXCEPT ![n][w].pc = "put_return"]
    /\ UNCHANGED <<clock, store, writes, net, resp, failures, lim, landed>>
    /\ UNCHANGED <<clockVars, storeVars, mergeVars, nodeVars>>

\* handle_put, line 96: the response.
PutResponse(timestamp, node_id) ==
    [status |-> "ok", timestamp |-> timestamp, node |-> node_id]

\* A handle_put that joins its threads and reports whether they all succeeded.
HandlePutReturn_join(n, w) ==
    /\ hs[n][w].pc = "put_return"
    /\ \A p \in Peers(n) : th[<<hs[n][w].wid, p>>].st \in {"done", "failed"}
    /\ resp' = [resp EXCEPT ![hs[n][w].wid] =
                   [status |-> IF \A p \in Peers(n) : th[<<hs[n][w].wid, p>>].st = "done"
                               THEN "ok" ELSE "error",
                    timestamp |-> hs[n][w].timestamp, node |-> n]]
    /\ hs' = [hs EXCEPT ![n][w] = Idle]
    /\ UNCHANGED <<clock, store, writes, th, net, failures, lim, landed>>
    /\ UNCHANGED <<clockVars, storeVars, mergeVars, nodeVars>>

HandlePutReturn(n, w) ==
    /\ hs[n][w].pc = "put_return"
    /\ resp' = [resp EXCEPT ![hs[n][w].wid] = PutResponse(hs[n][w].timestamp, n)]
    /\ hs' = [hs EXCEPT ![n][w] = Idle]
    /\ UNCHANGED <<clock, store, writes, th, net, failures, lim, landed>>
    /\ UNCHANGED <<clockVars, storeVars, mergeVars, nodeVars>>

(***************************************************************************)
(* _replicate_to_peer (src/node.py 155-187), one thread per write and peer.*)
(***************************************************************************)
\* time.sleep(delay) is over.
ThreadDelayDone(t) ==
    /\ th[t].st = "delay"
    /\ th' = [th EXCEPT ![t].st = "try"]
    /\ UNCHANGED <<clock, store, hs, writes, net, resp, failures, lim, landed>>
    /\ UNCHANGED <<clockVars, storeVars, mergeVars, nodeVars>>

\* A fan-out that contacts the peers one after the other: a thread makes its
\* attempt only when no other thread of the same write is before its end.
ThreadSend_in_turn(t) ==
    /\ th[t].st = "try"
    /\ \A u \in Threads :
         (u[1] = t[1] /\ u # t) => th[u].st \in {"try", "done", "failed"}
    /\ net' = net \cup {[to |-> t[2], wid |-> t[1], att |-> th[t].attempt,
                         data |-> th[t].data]}
    /\ th' = [th EXCEPT ![t].st = "wait", ![t].attempts = @ + 1]
    /\ UNCHANGED <<clock, store, hs, writes, resp, failures, lim, landed>>
    /\ UNCHANGED <<clockVars, storeVars, mergeVars, nodeVars>>

\* urllib.request.urlopen(req, timeout=5): the request leaves for the peer.
ThreadSend(t) ==
    /\ th[t].st = "try"
    /\ net' = net \cup {[to |-> t[2], wid |-> t[1], att |-> th[t].attempt,
                         data |-> th[t].data]}
    /\ th' = [th EXCEPT ![t].st = "wait", ![t].attempts = @ + 1]
    /\ UNCHANGED <<clock, store, hs, writes, resp, failures, lim, landed>>
    /\ UNCHANGED <<clockVars, storeVars, mergeVars, nodeVars>>

\* A backoff that is slept after the last attempt too.
RetryAfter_always(attempt) == TRUE

\* line 184: if attempt < max_retries - 1
RetryAfter(attempt) == attempt < max_retries - 1

\* A loop that never runs out of attempts.
LoopNext_forever(thread) == [thread EXCEPT !.st = "try", !.attempt = @ + 1]

\* for attempt in range(max_retries): the next iteration, or the end of the loop
\* and line 187.
LoopNext(thread) ==
    IF thread.attempt + 1 < max_retries
    THEN [thread EXCEPT !.st = "try", !.attempt = @ + 1]
    ELSE [thread EXCEPT !.st = "failed"]

\* except Exception: the attempt timed out (the request may still be handled by
\* the peer) or the connection failed (lost: the peer never sees the request).
ThreadFail(t, lost) ==
    /\ th[t].st = "wait"
    /\ failures < lim.failures
    /\ failures' = failures + 1
    /\ LET m == [to |-> t[2], wid |-> t[1], att |-> th[t].attempt, data |-> th[t].data] IN
         IF lost THEN m \in net /\ net' = net \ {m} ELSE net' = net
    /\ th' = [th EXCEPT ![t] =
                IF RetryAfter(th[t].attempt)
                THEN [@ EXCEPT !.st = "backoff", !.waits = Append(@, Pow2(th[t].attempt))]
                ELSE LoopNext(@)]
    /\ UNCHANGED <<clock, store, hs, writes, resp, lim, landed>>
    /\ UNCHANGED <<clockVars, storeVars, mergeVars, nodeVars>>

\* time.sleep(2 ** attempt) is over.
ThreadBackoffDone(t) ==
    /\ th[t].st = "backoff"
    /\ th' = [th EXCEPT ![t] = LoopNext(@)]
    /\ UNCHANGED <<clock, store, hs, writes, net, resp, failures, lim, landed>>
    /\ UNCHANGED <<clockVars, storeVars, mergeVars, nodeVars>>

(***************************************************************************)
(* handle_replicate (src/node.py 112-127), run by the peer's server for a  *)
(* request it takes from the network.                                      *)
(***************************************************************************)
\* line 115: local_time = self.clock.update(timestamp)
HandleReplicateClock(n, w, m) ==
    /\ hs[n][w].pc = "idle"
    /\ m \in net
    /\ m.to = n
    /\ net' = net \ {m}
    /\ clock' = [clock EXCEPT ![n] = update(clock[n], m.data.timestamp)]
    /\ hs' = [hs EXCEPT ![n][w] =
                [Idle EXCEPT !.pc = "rep_store", !.wid = m.wid, !.att = m.att,
                             !.key = m.data.key, !.value = m.data.value,
                             !.timestamp = m.data.timestamp,
                             !.source_node = m.data.source_node,
                             !.local_time = get_time(clock'[n])]]
    /\ landed' = [landed EXCEPT ![n] = @ \cup {m.wid}]
    /\ UNCHANGED <<store, writes, th, resp, failures, lim>>
    /\ UNCHANGED <<clockVars, storeVars, mergeVars, nodeVars>>

\* A handle_replicate that records itself as the origin of what it stores.
HandleReplicateStore_own_origin(n, w) ==
    /\ hs[n][w].pc = "rep_store"
    /\ LET h == hs[n][w]
           r == put(store[n], h.key, h.value, h.timestamp, n) IN
         /\ store' = [store EXCEPT ![n] = r.store]
         /\ hs' = [hs EXCEPT ![n][w].pc = "rep_return", ![n][w].applied = r.applied]
    /\ UNCHANGED <<clock, writes, th, net, resp, failures, lim, landed>>
    /\ UNCHANGED <<clockVars, storeVars, mergeVars, nodeVars>>

\* line 118: applied = self.store.put(key, value, timestamp, source_node)
HandleReplicateStore(n, w) ==
    /\ hs[n][w].pc = "rep_store"
    /\ LET h == hs[n][w]
           r == put(store[n], h.key, h.value, h.timestamp, h.source_node) IN
         /\ store' = [store EXCEPT ![n] = r.store]
         /\ hs' = [hs EXCEPT ![n][w].pc = "rep_return", ![n][w].applied = r.applied]
    /\ UNCHANGED <<clock, writes, th, net, resp, failures, lim, landed>>
    /\ UNCHANGED <<clockVars, storeVars, mergeVars, nodeVars>>

\* A handle_replicate that forwards what it applied to its own peers.
HandleReplicateReturn_forward(n, w) ==
    /\ hs[n][w].pc = "rep_return"
    /\ LET h == hs[n][w]
           t == <<h.wid, n>>
           acked == IF th[t].st = "wait" /\ th[t].attempt = h.att
                    THEN [th EXCEPT ![t].st = "done",
                                    ![t].result = [status |-> "ok", applied |-> h.applied]]
                    ELSE th
           fresh == IF h.applied
                    THEN {<<h.wid, p>> : p \in Peers(n)} \ Threads
                    ELSE {} IN
         th' = [u \in Threads \cup fresh |->
                  IF u \in Threads THEN acked[u]
                  ELSE NewThread(n, h.key, h.value, h.timestamp, DelayFor(n, u[2]))]
    /\ hs' = [hs EXCEPT ![n][w] = Idle]
    /\ UNCHANGED <<clock, store, writes, net, resp, failures, lim, landed>>
    /\ UNCHANGED <<clockVars, storeVars, mergeVars, nodeVars>>

\* A sender that takes applied = false for a failure and tries again.
HandleReplicateReturn_retry_unapplied(n, w) ==
    /\ hs[n][w].pc = "rep_return"
    /\ LET h == hs[n][w]
           t == <<h.wid, n>> IN
         th' = IF th[t].st = "wait" /\ th[t].attempt = h.att
               THEN IF h.applied
                    THEN [th EXCEPT ![t].st = "done",
                                    ![t].result = [status |-> "ok", applied |-> TRUE]]
                    ELSE [th EXCEPT ![t] = LoopNext(@)]
               ELSE th
    /\ hs' = [hs EXCEPT ![n][w] = Idle]
    /\ UNCHANGED <<clock, store, writes, net, resp, failures, lim, landed>>
    /\ UNCHANGED <<clockVars, storeVars, mergeVars, nodeVars>>

\* line 127 and _send_response(200, result): the thread that still waits for this
\* attempt reads the response and returns (lines 177-180).
HandleReplicateReturn(n, w) ==
    /\ hs[n][w].pc = "rep_return"
    /\ LET h == hs[n][w]
           t == <<h.wid, n>> IN
         th' = IF th[t].st = "wait" /\ th[t].attempt = h.att
               THEN [th EXCEPT ![t].st = "done",
                               ![t].result = [status |-> "ok", applied |-> h.applied]]
               ELSE th
    /\ hs' = [hs EXCEPT ![n][w] = Idle]
    /\ UNCHANGED <<clock, store, writes, net, resp, failures, lim, landed>>
    /\ UNCHANGED <<clockVars, storeVars, mergeVars, nodeVars>>

SysNext ==
    \/ \E n \in NodeIds : \E w \in Workers(n) : \E key \in Keys :
         HandlePutClock(n, w, key, RequestValue(Len(writes) + 1))
    \/ \E n \in NodeIds : \E w \in Workers(n) : HandlePutStore(n, w)
    \/ \E n \in NodeIds : \E w \in Workers(n) : HandlePutReplicate(n, w)
    \/ \E n \in NodeIds : \E w \in Workers(n) : HandlePutReturn(n, w)
    \/ \E n \in NodeIds : \E w \in Workers(n) : \E m \in net :
         HandleReplicateClock(n, w, m)
    \/ \E n \in NodeIds : \E w \in Workers(n) : HandleReplicateStore(n, w)
    \/ \E n \in NodeIds : \E w \in Workers(n) : HandleReplicateReturn(n, w)
    \/ \E t \in Threads : ThreadDelayDone(t)
    \/ \E t \in Threads : ThreadSend(t)
    \/ \E t \in Threads : \E lost \in BOOLEAN : ThreadFail(t, lost)
    \/ \E t \in Threads : ThreadBackoffDone(t)

(***************************************************************************)
(* One Node behind its RequestHandler (src/node.py 72-137, 190-255), with  *)
(* requests of any shape arriving on concurrent handler threads.  A field  *)
(* of a request body is a set: empty when the body lacks the field (get    *)
(* then returns None), and holding the field's value otherwise.            *)
(***************************************************************************)
node_id == "A"

Absent == {}

JsonObject(key, value, timestamp, source_node) ==
    [json |-> "object", key |-> key, value |-> value, timestamp |-> timestamp,
     source_node |-> source_node]

\* A body that is JSON and not an object: [], null, 5, "abc".
NotAnObject ==
    [json |-> "other", key |-> Absent, value |-> Absent, timestamp |-> Absent,
     source_node |-> Absent]

\* A body json.loads cannot parse.
NotJson ==
    [json |-> "invalid", key |-> Absent, value |-> Absent, timestamp |-> Absent,
     source_node |-> Absent]

\* The body of a request that has none.
NoBody ==
    [json |-> None, key |-> Absent, value |-> Absent, timestamp |-> Absent,
     source_node |-> Absent]

PutBodies ==
    {JsonObject({"x"}, {"1"}, Absent, Absent),
     JsonObject(Absent, {"1"}, Absent, Absent),
     JsonObject({"x"}, Absent, Absent, Absent),
     JsonObject({""}, {"1"}, Absent, Absent),
     NotAnObject, NotJson}

ReplicateBodies ==
    {JsonObject({"x"}, {"2"}, {ts}, {"B"}) : ts \in 1..MaxTs}
    \cup {JsonObject(Absent, {"2"}, {1}, {"B"}),
          JsonObject({"x"}, Absent, {1}, {"B"}),
          JsonObject({"x"}, {"2"}, Absent, {"B"}),
          JsonObject({"x"}, {"2"}, {1}, Absent),
          JsonObject({"x"}, {"2"}, {0}, {"B"}),
          NotAnObject, NotJson}

\* The value of a field the body holds.
Field(f) == CHOOSE x \in f : TRUE

\* Python's truth value of data.get(...) for a string and for a number.
TruthyStr(f) == f # Absent /\ f # {""}

TruthyInt(f) == f # Absent /\ f # {0}

\* line 234, negated: if not key or value is None
put_request_ok(data) == ~(~TruthyStr(data.key) \/ data.value = Absent)

\* line 245, negated: if not all([key, value is not None, timestamp, source_node])
replicate_request_ok(data) ==
    /\ TruthyStr(data.key)
    /\ data.value # Absent
    /\ TruthyInt(data.timestamp)
    /\ TruthyStr(data.source_node)

\* A handler thread between two requests.
Free ==
    [pc |-> "idle", req |-> NoBody, key |-> None, value |-> None, timestamp |-> 0,
     source_node |-> None, applied |-> FALSE, todo |-> <<>>, all_data |-> EmptyStore,
     lamport_time |-> 0, snap_time |-> 0]

\* A request that is over: answered tells whether _send_response was called,
\* core whether a method of Node was; snap_time is the clock at the moment
\* handle_status took its snapshot of the store.
Exchange(path, req, answered, code, core, h) ==
    [path |-> path, req |-> req, answered |-> answered, code |-> code, core |-> core,
     timestamp |-> h.timestamp, applied |-> h.applied, store |-> h.all_data,
     lamport_time |-> h.lamport_time, snap_time |-> h.snap_time]

NodeInit ==
    /\ nd_clock = 0
    /\ nd_store = EmptyStore
    /\ nd_sent = {}
    /\ nd_h = [t \in HandlerThreads |-> Free]
    /\ nd_log = <<>>

RequestsStarted ==
    Len(nd_log) + Cardinality({t \in HandlerThreads : nd_h[t].pc # "idle"})

\* do_POST up to the call of the handler, lines 225-236 and 245-247: a body
\* that is not JSON is answered 400; on a body that is JSON and not an object
\* data.get raises AttributeError, which ends the request with no response; an
\* object that fails the test of its path is answered 400; any other is passed
\* to the handler.
PostOutcome(data, ok) ==
    IF data.json = "invalid" THEN "400"
    ELSE IF data.json = "other" THEN "raise"
    ELSE IF ~ok THEN "400"
    ELSE "call"

\* The request a do_POST ended without calling the handler.
Refused(path, data, outcome) ==
    Exchange(path, data, outcome = "400", IF outcome = "400" THEN 400 ELSE 0, FALSE, Free)

\* The handler thread as it enters handle_put or handle_replicate.
Called(data, first) ==
    [Free EXCEPT !.pc = first, !.req = data,
                 !.key = Field(data.key),
                 !.value = Field(data.value),
                 !.timestamp = IF data.timestamp = Absent THEN 0
                               ELSE Field(data.timestamp),
                 !.source_node = IF data.source_node = Absent THEN None
                                 ELSE Field(data.source_node)]

\* POST /put
DoPostPut(t, data) ==
    /\ nd_h[t].pc = "idle"
    /\ RequestsStarted < MaxRequests
    /\ LET outcome == PostOutcome(data, put_request_ok(data)) IN
         IF outcome = "call"
         THEN /\ nd_h' = [nd_h EXCEPT ![t] = Called(data, "put_clock")]
              /\ UNCHANGED nd_log
         ELSE /\ nd_log' = Append(nd_log, Refused("/put", data, outcome))
              /\ UNCHANGED nd_h
    /\ UNCHANGED <<nd_clock, nd_store, nd_sent>>
    /\ UNCHANGED <<clock, store, hs, writes, th, net, resp, failures, lim, landed>>
    /\ UNCHANGED <<clockVars, storeVars, mergeVars>>

\* POST /replicate
DoPostReplicate(t, data) ==
    /\ nd_h[t].pc = "idle"
    /\ RequestsStarted < MaxRequests
    /\ LET outcome == PostOutcome(data, replicate_request_ok(data)) IN
         IF outcome = "call"
         THEN /\ nd_h' = [nd_h EXCEPT ![t] = Called(data, "rep_clock")]
              /\ UNCHANGED nd_log
         ELSE /\ nd_log' = Append(nd_log, Refused("/replicate", data, outcome))
              /\ UNCHANGED nd_h
    /\ UNCHANGED <<nd_clock, nd_store, nd_sent>>
    /\ UNCHANGED <<clock, store, hs, writes, th, net, resp, failures, lim, landed>>
    /\ UNCHANGED <<clockVars, storeVars, mergeVars>>

\* handle_put, line 86: timestamp = self.clock.increment()
NodePutClock(t) ==
    /\ nd_h[t].pc = "put_clock"
    /\ nd_clock' = increment(nd_clock)
    /\ nd_h' = [nd_h EXCEPT ![t].timestamp = nd_clock', ![t].pc = "put_store"]
    /\ UNCHANGED <<nd_store, nd_sent, nd_log>>
    /\ UNCHANGED <<clock, store, hs, writes, th, net, resp, failures, lim, landed>>
    /\ UNCHANGED <<clockVars, storeVars, mergeVars>>

\* handle_put, line 89: self.store.put(key, value, timestamp, self.node_id)
NodePutStore(t) ==
    /\ nd_h[t].pc = "put_store"
    /\ LET h == nd_h[t]
           r == put(nd_store, h.key, h.value, h.timestamp, node_id) IN
         /\ nd_store' = r.store
         /\ nd_h' = [nd_h EXCEPT ![t].applied = r.applied, ![t].pc = "put_replicate"]
    /\ UNCHANGED <<nd_clock, nd_sent, nd_log>>
    /\ UNCHANGED <<clock, store, hs, writes, th, net, resp, failures, lim, landed>>
    /\ UNCHANGED <<clockVars, storeVars, mergeVars>>

\* handle_put, lines 93-96, and _send_response(200, result): one thread per
\* peer is started and the response is sent.
NodePutReplicate(t) ==
    /\ nd_h[t].pc = "put_replicate"
    /\ LET h == nd_h[t] IN
         /\ nd_sent' = nd_sent \cup
                {[to |-> p, key |-> h.key, value |-> h.value, timestamp |-> h.timestamp,
                  source_node |-> node_id] : p \in Peers(node_id)}
         /\ nd_log' = Append(nd_log, Exchange("/put", h.req, TRUE, 200, TRUE, h))
    /\ nd_h' = [nd_h EXCEPT ![t] = Free]
    /\ UNCHANGED <<nd_clock, nd_store>>
    /\ UNCHANGED <<clock, store, hs, writes, th, net, resp, failures, lim, landed>>
    /\ UNCHANGED <<clockVars, storeVars, mergeVars>>

\* handle_replicate, line 115: self.clock.update(timestamp)
NodeReplicateClock(t) ==
    /\ nd_h[t].pc = "rep_clock"
    /\ nd_clock' = update(nd_clock, nd_h[t].timestamp)
    /\ nd_h' = [nd_h EXCEPT ![t].pc = "rep_store"]
    /\ UNCHANGED <<nd_store, nd_sent, nd_log>>
    /\ UNCHANGED <<clock, store, hs, writes, th, net, resp, failures, lim, landed>>
    /\ UNCHANGED <<clockVars, storeVars, mergeVars>>

\* handle_replicate, lines 118-127, and _send_response(200, result)
NodeReplicateStore(t) ==
    /\ nd_h[t].pc = "rep_store"
    /\ LET h == nd_h[t]
           r == put(nd_store, h.key, h.value, h.timestamp, h.source_node) IN
         /\ nd_store' = r.store
         /\ nd_log' = Append(nd_log, Exchange("/replicate", h.req, TRUE, 200, TRUE,
                                              [h EXCEPT !.applied = r.applied]))
    /\ nd_h' = [nd_h EXCEPT ![t] = Free]
    /\ UNCHANGED <<nd_clock, nd_sent>>
    /\ UNCHANGED <<clock, store, hs, writes, th, net, resp, failures, lim, landed>>
    /\ UNCHANGED <<clockVars, storeVars, mergeVars>>

\* A handle_status that reads the clock before it copies the store.
StatusOrder_clock_first == <<"get_time", "get_all">>

\* handle_status, lines 131-137: all_data = self.store.get_all() is evaluated
\* first, self.clock.get_time() inside the dict of the return statement.
StatusOrder == <<"get_all", "get_time">>

\* do_GET, lines 206-207: the handler enters handle_status.
DoGetStatus(t) ==
    /\ nd_h[t].pc = "idle"
    /\ RequestsStarted < MaxRequests
    /\ nd_h' = [nd_h EXCEPT ![t] = [Free EXCEPT !.pc = "status", !.todo = StatusOrder]]
    /\ UNCHANGED <<nd_clock, nd_store, nd_sent, nd_log>>
    /\ UNCHANGED <<clock, store, hs, writes, th, net, resp, failures, lim, landed>>
    /\ UNCHANGED <<clockVars, storeVars, mergeVars>>

\* line 131: all_data = self.store.get_all()
NodeStatusGetAll(t) ==
    /\ nd_h[t].pc = "status"
    /\ nd_h[t].todo # <<>>
    /\ Head(nd_h[t].todo) = "get_all"
    /\ nd_h' = [nd_h EXCEPT ![t].all_data = get_all(nd_store),
                            ![t].snap_time = nd_clock,
                            ![t].todo = Tail(@)]
    /\ UNCHANGED <<nd_clock, nd_store, nd_sent, nd_log>>
    /\ UNCHANGED <<clock, store, hs, writes, th, net, resp, failures, lim, landed>>
    /\ UNCHANGED <<clockVars, storeVars, mergeVars>>

\* line 134: 'lamport_time': self.clock.get_time()
NodeStatusGetTime(t) ==
    /\ nd_h[t].pc = "status"
    /\ nd_h[t].todo # <<>>
    /\ Head(nd_h[t].todo) = "get_time"
    /\ nd_h' = [nd_h EXCEPT ![t].lamport_time = get_time(nd_clock),
                            ![t].todo = Tail(@)]
    /\ UNCHANGED <<nd_clock, nd_store, nd_sent, nd_log>>
    /\ UNCHANGED <<clock, store, hs, writes, th, net, resp, failures, lim, landed>>
    /\ UNCHANGED <<clockVars, storeVars, mergeVars>>

\* line 132 and _send_response(200, result)
NodeStatusReturn(t) ==
    /\ nd_h[t].pc = "status"
    /\ nd_h[t].todo = <<>>
    /\ nd_log' = Append(nd_log, Exchange("/status", NoBody, TRUE, 200, TRUE, nd_h[t]))
    /\ nd_h' = [nd_h EXCEPT ![t] = Free]
    /\ UNCHANGED <<nd_clock, nd_store, nd_sent>>
    /\ UNCHANGED <<clock, store, hs, writes, th, net, resp, failures, lim, landed>>
    /\ UNCHANGED <<clockVars, storeVars, mergeVars>>

NodeNext ==
    \/ \E t \in HandlerThreads : \E data \in PutBodies : DoPostPut(t, data)
    \/ \E t \in HandlerThreads : \E data \in ReplicateBodies : DoPostReplicate(t, data)
    \/ \E t \in HandlerThreads : DoGetStatus(t)
    \/ \E t \in HandlerThreads : NodePutClock(t)
    \/ \E t \in HandlerThreads : NodePutStore(t)
    \/ \E t \in HandlerThreads : NodePutReplicate(t)
    \/ \E t \in HandlerThreads : NodeReplicateClock(t)
    \/ \E t \in HandlerThreads : NodeReplicateStore(t)
    \/ \E t \in HandlerThreads : NodeStatusGetAll(t)
    \/ \E t \in HandlerThreads : NodeStatusGetTime(t)
    \/ \E t \in HandlerThreads : NodeStatusReturn(t)

(***************************************************************************)
(* The specifications.                                                     *)
(***************************************************************************)
ClockIdle ==
    /\ ck_time = 0
    /\ ck_lock = None
    /\ ck_pc = <<>>
    /\ ck_op = <<>>
    /\ ck_arg = <<>>
    /\ ck_tmp = <<>>
    /\ ck_returns = <<>>

StoreIdle == kv = EmptyStore /\ kv_hist = <<>> /\ LockedIdle

MergeIdle ==
    /\ mg_set = {}
    /\ mg_todo1 = {}
    /\ mg_todo2 = {}
    /\ mg_st1 = EmptyStore
    /\ mg_st2 = EmptyStore

SysIdle ==
    /\ clock = <<>>
    /\ store = <<>>
    /\ hs = <<>>
    /\ writes = <<>>
    /\ th = <<>>
    /\ net = {}
    /\ resp = <<>>
    /\ failures = 0
    /\ lim = <<>>
    /\ landed = <<>>
    /\ NodeIdle

InitClock == ClockInit /\ StoreIdle /\ MergeIdle /\ SysIdle

SpecClock == InitClock /\ [][ClockNext]_vars

InitStore == ClockIdle /\ StoreInit /\ MergeIdle /\ SysIdle

SpecStore == InitStore /\ [][StoreNext]_vars

InitLocked ==
    /\ ClockIdle
    /\ kv = EmptyStore
    /\ kv_hist = <<>>
    /\ LockedInit
    /\ MergeIdle
    /\ SysIdle

SpecLocked == InitLocked /\ [][LockedNext]_vars

InitMerge == ClockIdle /\ StoreIdle /\ MergeInit /\ SysIdle

SpecMerge == InitMerge /\ [][MergeNext]_vars

Init == ClockIdle /\ StoreIdle /\ MergeIdle /\ SysInit

Next == SysNext

Spec == Init /\ [][Next]_vars

InitRetry == ClockIdle /\ StoreIdle /\ MergeIdle /\ RetryInit

SpecRetry == InitRetry /\ [][Next]_vars

\* The nodes as a server with two handler threads would run them.
InitThreaded == ClockIdle /\ StoreIdle /\ MergeIdle /\ SysInitT(2, MaxWrites, 0)

SpecThreaded == InitThreaded /\ [][Next]_vars

InitNode ==
    /\ ClockIdle
    /\ StoreIdle
    /\ MergeIdle
    /\ clock = <<>>
    /\ store = <<>>
    /\ hs = <<>>
    /\ writes = <<>>
    /\ th = <<>>
    /\ net = {}
    /\ resp = <<>>
    /\ failures = 0
    /\ lim = <<>>
    /\ landed = <<>>
    /\ NodeInit

SpecNode == InitNode /\ [][NodeNext]_vars

(***************************************************************************)
(* Claims.                                                                 *)
(***************************************************************************)
ClockCallOps == {"increment", "update"}

\* C1: on one clock, in the order in which the calls take effect, every
\* increment and every update returns a value strictly greater than every value
\* returned before it, and an update returns a value strictly greater than the
\* received_time it was given; so no two increments return the same timestamp.
C1_ClockMonotonic ==
    \A j \in 1..Len(ck_returns) :
        ck_returns[j].op \in ClockCallOps =>
            /\ \A i \in 1..(j - 1) : ck_returns[i].ret < ck_returns[j].ret
            /\ ck_returns[j].op = "update" => ck_returns[j].ret > ck_returns[j].received

\* Two threads were inside their calls at once, and an update whose
\* received_time was ahead of the clock returned after an increment of the other thread.
C1_Witness ==
    \E i, j \in 1..Len(ck_returns) :
        /\ i < j
        /\ ck_returns[i].op = "increment"
        /\ ck_returns[j].op = "update"
        /\ ck_returns[i].thread # ck_returns[j].thread
        /\ ck_returns[j].received > ck_returns[i].ret
        /\ \E t \in ClockThreads : ck_pc[t] = "acquire" /\ ck_lock \notin {None, t}

\* C2: the tuples of a set, put into an empty store in any two orders, leave the
\* same mapping.
C2_OrderIndependent ==
    (mg_todo1 = {} /\ mg_todo2 = {}) => mg_st1 = mg_st2

\* The same statement for the sets in which no two tuples share key and timestamp.
C2_DistinctTimestamps ==
    (/\ mg_todo1 = {}
     /\ mg_todo2 = {}
     /\ \A a, b \in mg_set : (a # b /\ a[1] = b[1]) => a[3] # b[3])
    => mg_st1 = mg_st2

SameTie(a, b) == a.key = b.key /\ a.timestamp = b.timestamp

\* No put between the i-th and the j-th was applied to the key of the i-th.
Untouched(i, j) ==
    \A k \in (i + 1)..(j - 1) : ~(kv_hist[k].applied /\ kv_hist[k].key = kv_hist[i].key)

\* C6: once put(k, v1, ts, o1) was applied, a later put(k, v2, ts, o2) with the
\* same timestamp returns False and leaves the store as it was; the store still
\* holds (v1, ts, o1) for k unless a put in between replaced it.
C6_TieRejected ==
    \A i, j \in 1..Len(kv_hist) :
        (i < j /\ kv_hist[i].applied /\ SameTie(kv_hist[i], kv_hist[j])) =>
            /\ ~kv_hist[j].applied
            /\ kv_hist[j].after = kv_hist[j].before
            /\ Untouched(i, j) =>
                 kv_hist[j].after[kv_hist[i].key] =
                     Entry(kv_hist[i].value, kv_hist[i].timestamp, kv_hist[i].node)

\* An applied put was followed by a put of another value from another origin
\* with the same key and timestamp.
C6_Witness ==
    \E i \in 1..(Len(kv_hist) - 1) :
        /\ kv_hist[i].applied
        /\ SameTie(kv_hist[i], kv_hist[i + 1])
        /\ kv_hist[i].value # kv_hist[i + 1].value
        /\ kv_hist[i].node # kv_hist[i + 1].node

SameTuple(a, b) ==
    /\ a.key = b.key
    /\ a.value = b.value
    /\ a.timestamp = b.timestamp
    /\ a.node = b.node

\* C7: when a put returned True, the identical put made right after it returns
\* False and leaves the whole mapping unchanged.
C7_Idempotent ==
    \A i \in 1..(Len(kv_hist) - 1) :
        (kv_hist[i].applied /\ SameTuple(kv_hist[i], kv_hist[i + 1])) =>
            /\ ~kv_hist[i + 1].applied
            /\ kv_hist[i + 1].after = kv_hist[i].after

\* A tuple that replaced an older entry of its key was put a second time.
C7_Witness ==
    \E i \in 2..(Len(kv_hist) - 1) :
        /\ kv_hist[i].applied
        /\ kv_hist[i].key \in DOMAIN kv_hist[i].before
        /\ SameTuple(kv_hist[i], kv_hist[i + 1])

\* Every replication thread has been answered, no request is left in the
\* network and no handler is running.
AllDelivered ==
    /\ \A t \in Threads : th[t].st = "done"
    /\ \A i \in 1..Len(writes) : \A p \in Peers(writes[i].node) : <<i, p>> \in Threads
    /\ net = {}
    /\ \A n \in NodeIds : \A w \in Workers(n) : hs[n][w].pc = "idle"

\* Two nodes each authored a write of the same key before the other's write
\* had landed at it.
ConcurrentWrites(i, j) ==
    /\ writes[i].node # writes[j].node
    /\ writes[i].key = writes[j].key
    /\ i \notin writes[j].seen
    /\ j \notin writes[i].seen

Newest(i, j) == IF writes[i].timestamp >= writes[j].timestamp THEN i ELSE j

\* C3: when two nodes each authored a write of the same key before the other's
\* replication landed, then once every delivery has completed all nodes store
\* the same entry for the key, the write with the higher timestamp.
C3_ConcurrentWritesConverge ==
    \A i, j \in 1..Len(writes) :
        (i < j /\ Len(writes) = 2 /\ ConcurrentWrites(i, j) /\ AllDelivered) =>
            \A n \in NodeIds :
                LET k == Newest(i, j) IN
                  get(store[n], writes[i].key) =
                      Entry(writes[k].value, writes[k].timestamp, writes[k].node)

TwoWritesOfA ==
    /\ Len(writes) = 2
    /\ writes[1].node = "A" /\ writes[2].node = "A"
    /\ writes[1].key = writes[2].key
    /\ writes[1].timestamp = 1 /\ writes[2].timestamp = 2
    /\ <<1, "C">> \in Threads /\ <<2, "C">> \in Threads
    /\ th[<<1, "C">>].st = "done" /\ th[<<2, "C">>].st = "done"

\* C5: with C the delayed peer of A, after A's two sequential writes of one key
\* (timestamps 1 and 2) have both been delivered to C, in whatever order, C stores
\* the second write, with timestamp 2.
C5_DelayedPeerKeepsNewest ==
    TwoWritesOfA =>
        get(store["C"], writes[2].key) = Entry(writes[2].value, 2, "A")

\* Both deliveries to C were delayed, the second write reached C first and the
\* first write was then rejected there.
C5_Witness ==
    /\ TwoWritesOfA
    /\ th[<<1, "C">>].delay = delay_seconds
    /\ th[<<2, "C">>].delay = delay_seconds
    /\ th[<<2, "C">>].result.applied
    /\ ~th[<<1, "C">>].result.applied

AttemptsBounded ==
    \A t \in Threads :
        /\ th[t].attempts <= 3
        /\ th[t].st = "failed" => th[t].attempts = 3

NoAttemptAfterFailure ==
    \A t \in Threads :
        th[t].st = "failed" =>
            /\ th'[t] = th[t]
            /\ \A m \in net' \ net : ~(m.wid = t[1] /\ m.to = t[2])

\* C8: a delivery sequence makes at most 3 attempts; one that ended in final
\* failure has made exactly 3, and makes no attempt afterwards.
C8_RetryExhaustion == [](AttemptsBounded) /\ [][NoAttemptAfterFailure]_vars

\* A delivery sequence whose three attempts all failed.
C8_Witness ==
    \E t \in Threads : th[t].st = "failed" /\ th[t].attempts = 3 /\ failures = 3

\* C9 as stated: a delivery sequence that gave up has waited 1, 2 and 4 time
\* units, one wait after each of its three failed attempts.
C9_WaitsOneTwoFour ==
    \A t \in Threads : th[t].st = "failed" => th[t].waits = <<1, 2, 4>>

\* The failed attempts a delivery sequence has behind it.
FailedAttempts(thread) ==
    IF thread.st \in {"backoff", "failed"} THEN thread.attempt + 1 ELSE thread.attempt

\* C9, amended: the waits of a delivery sequence are 2^i after the failed attempt
\* with index i, for i = 0 and i = 1 only: a sequence that gave up has waited 1
\* and 2 time units, and nothing after its third failed attempt.
C9_WaitsOneTwo ==
    \A t \in Threads :
        /\ Len(th[t].waits) = (IF FailedAttempts(th[t]) < 2 THEN FailedAttempts(th[t]) ELSE 2)
        /\ \A i \in 1..Len(th[t].waits) : th[t].waits[i] = Pow2(i - 1)
        /\ th[t].st = "failed" => th[t].waits = <<1, 2>>

\* A delivery sequence that gave up after its third failed attempt.
C9_Witness ==
    \E t \in Threads : th[t].st = "failed" /\ th[t].attempt = 2 /\ Len(th[t].waits) = 2

\* A step that changes a replication thread leaves the clock and the store of
\* the node that authored the write, and every response, as they were.
DeliveryInvisible ==
    \A t \in Threads :
        th'[t] # th[t] =>
            /\ clock'[th[t].data.source_node] = clock[th[t].data.source_node]
            /\ store'[th[t].data.source_node] = store[th[t].data.source_node]
            /\ resp' = resp

ResponseFixed ==
    \A i \in 1..Len(writes) :
        resp[i] # NoResponse => resp[i] = PutResponse(writes[i].timestamp, writes[i].node)

\* C10: the response of a local write is {ok, ts, self} whatever its deliveries
\* do, it is never changed once given, and no step of a delivery (a success, a
\* failure, the end of the retries) changes the writer's clock or store.
C10_ReplicationInvisible ==
    /\ [](ResponseFixed)
    /\ [][DeliveryInvisible]_vars
    /\ [][\A i \in 1..Len(writes) : resp[i] # NoResponse => resp'[i] = resp[i]]_vars

\* A local write was answered before any of its deliveries made an attempt.
C10_Witness ==
    \E i \in 1..Len(writes) :
        /\ resp[i] # NoResponse
        /\ \A p \in Peers(writes[i].node) : th[<<i, p>>].attempts = 0

\* A step of one delivery thread leaves every other delivery thread as it was.
OwnStepOnly ==
    \A t, u \in Threads :
        (t # u /\ th'[t] # th[t]) => th'[u] = th[u]

\* The next step of a delivery thread that sleeps or is about to send is its
\* own to take, in whatever state the threads for the other peers are.
NeverHeldBack ==
    \A t \in Threads :
        /\ th[t].st = "delay" => ENABLED ThreadDelayDone(t)
        /\ th[t].st = "try" => ENABLED ThreadSend(t)
        /\ th[t].st = "backoff" => ENABLED ThreadBackoffDone(t)

\* C11: the delivery sequences of one write proceed independently per peer: no
\* step of the sequence for one peer waits for, or changes, the sequence for
\* another peer, which may be in its delay, in a backoff wait or failed.
C11_PeersIndependent == [](NeverHeldBack) /\ [][OwnStepOnly]_vars

\* The delivery to one peer succeeded while the one to the delayed peer of the
\* same write, past its delay and one failed attempt, is in a backoff wait.
C11_Witness ==
    \E t, u \in Threads :
        /\ t[1] = u[1]
        /\ t # u
        /\ th[t].st = "done"
        /\ th[u].st = "backoff"
        /\ th[u].delay > 0

\* C12: at every node, whatever local writes and inbound replications it
\* handles, a stored entry is replaced only by an entry with a strictly greater
\* timestamp, a key once present is never removed, and a lookup that found the
\* key never turns into not_found.
C12_EntriesOnlyAdvance ==
    [][\A n \in NodeIds : \A key \in DOMAIN store[n] :
         /\ key \in DOMAIN store'[n]
         /\ store'[n][key] # store[n][key] =>
                store'[n][key].timestamp > store[n][key].timestamp
         /\ handle_get(store[n], key).status = "ok"
         /\ handle_get(store'[n], key).status = "ok"]_vars

\* At one node a write it had installed was replaced by a later one, and at
\* another node the same two writes arrived newest first, so that the older
\* one was rejected.
C12_Witness ==
    \E i, j \in 1..Len(writes) : \E n \in NodeIds :
        /\ writes[i].key = writes[j].key
        /\ writes[i].timestamp < writes[j].timestamp
        /\ writes[i].applied
        /\ handle_get(store[writes[i].node], writes[i].key).timestamp = writes[j].timestamp
        /\ \E t \in Threads :
             /\ t[1] = i
             /\ th[t].st = "done"
             /\ ~th[t].result.applied
             /\ th[t].attempts = 1

\* The puts that have returned.
PutsDone == {i \in 1..Len(ks_done) : ks_done[i].call.op = "put"}

\* The entries a key may hold: the one the store started with and those the
\* puts that have been called carry.
Candidates(key) ==
    (IF key \in DOMAIN ks_first THEN {ks_first[key]} ELSE {})
    \cup {Entry(ks_done[i].call.value, ks_done[i].call.timestamp, ks_done[i].call.node) :
            i \in {j \in PutsDone : ks_done[j].call.key = key}}
    \cup {Entry(ks_call[t].value, ks_call[t].timestamp, ks_call[t].node) :
            t \in {u \in StoreThreads : ks_call[u].op = "put" /\ ks_call[u].key = key
                                         /\ ks_pc[u] # "idle"}}

\* No put that has returned is lost: the key holds one of the candidates, and
\* none of the puts that returned, nor the entry the store started with, has a
\* greater timestamp.
NoLostUpdate ==
    /\ \A key \in DOMAIN ks_first :
         key \in DOMAIN ks_store /\ ks_store[key].timestamp >= ks_first[key].timestamp
    /\ \A i \in PutsDone :
         LET c == ks_done[i].call IN
           /\ c.key \in DOMAIN ks_store
           /\ ks_store[c.key].timestamp >= c.timestamp
    /\ \A key \in DOMAIN ks_store : ks_store[key] \in Candidates(key)

\* The comparison and the assignment of a put are one step for every other
\* caller: while a put stands between the two, no other thread is inside a
\* method, and no get or get_all has read the dict at such a moment.
PutsAtomic ==
    /\ \A t, u \in StoreThreads :
         (t # u /\ ks_pc[t] \in {"compare", "install"}) =>
             ks_pc[u] \in {"idle", "acquire"}
    /\ \A t \in StoreThreads : ~ks_ret[t].midput
    /\ \A i \in 1..Len(ks_done) : ~ks_done[i].ret.midput

\* C13: with concurrent puts on the same key the comparison and the assignment
\* of each put are atomic, so in every interleaving the key ends with the
\* candidate of the greatest timestamp among the puts and the existing entry,
\* and a concurrent get or get_all sees each put entirely or not at all.
C13_NoLostUpdate == NoLostUpdate /\ PutsAtomic

\* Two puts of the same key are in progress at once: the one with the greater
\* timestamp has compared and is about to assign, the other waits for the lock;
\* the key held an older entry before, which a get has returned.
C13_Witness ==
    \E t, u \in StoreThreads :
        /\ ks_pc[t] = "install"
        /\ ks_pc[u] = "acquire"
        /\ ks_call[u].op = "put"
        /\ ks_call[u].key = ks_call[t].key
        /\ ks_call[u].timestamp < ks_call[t].timestamp
        /\ ks_call[t].key \in DOMAIN ks_first
        /\ Len(ks_done) = 1
        /\ ks_done[1].call.op = "get"
        /\ ks_done[1].ret.entry = ks_first[ks_call[t].key]

\* What the claim calls malformed: a /put whose body lacks key or value, a
\* /replicate whose body lacks any of key, value, timestamp, source_node.
Malformed(path, req) ==
    \/ path = "/put" /\ (req.key = Absent \/ req.value = Absent)
    \/ path = "/replicate" /\ (req.key = Absent \/ req.value = Absent
                                  \/ req.timestamp = Absent \/ req.source_node = Absent)

\* C14: a /put that lacks key or value, and a /replicate that lacks any of key,
\* value, timestamp, source_node, is answered with a 400 error, reaches no
\* method of Node, and leaves clock and store unchanged and dispatches nothing.
C14_MalformedRejected ==
    /\ \A i \in 1..Len(nd_log) :
         Malformed(nd_log[i].path, nd_log[i].req) =>
             /\ nd_log[i].answered
             /\ nd_log[i].code = 400
             /\ ~nd_log[i].core
    /\ \A t \in HandlerThreads :
         nd_h[t].pc \in {"put_clock", "put_store", "put_replicate"} =>
             ~Malformed("/put", nd_h[t].req)
    /\ \A t \in HandlerThreads :
         nd_h[t].pc \in {"rep_clock", "rep_store"} =>
             ~Malformed("/replicate", nd_h[t].req)

\* The part of C14 the code keeps: a request that lacks a field is never
\* answered 200 and never reaches a method of Node, and the step that ends it
\* changes neither clock nor store and starts no replication.
C14_CoreUntouched ==
    /\ [](\A i \in 1..Len(nd_log) :
            Malformed(nd_log[i].path, nd_log[i].req) =>
                nd_log[i].code # 200 /\ ~nd_log[i].core)
    /\ [][(Len(nd_log') > Len(nd_log) /\ ~nd_log'[Len(nd_log')].core) =>
            /\ nd_clock' = nd_clock
            /\ nd_store' = nd_store
            /\ nd_sent' = nd_sent
            /\ nd_h' = nd_h]_vars

\* C18: every response of handle_status, also one prepared while other
\* handlers of the node were running, reports a lamport_time that is at least
\* the timestamp of every entry of the store it reports.
C18_StatusTimeCoversStore ==
    \A i \in 1..Len(nd_log) :
        nd_log[i].path = "/status" =>
            \A key \in DOMAIN nd_log[i].store :
                nd_log[i].store[key].timestamp <= nd_log[i].lamport_time

\* A status response that reports an entry, prepared while another handler
\* moved the clock between the copy of the store and the reading of the clock.
C18_Witness ==
    \E i \in 1..Len(nd_log) :
        /\ nd_log[i].path = "/status"
        /\ DOMAIN nd_log[i].store # {}
        /\ nd_log[i].lamport_time > nd_log[i].snap_time

\* A request enters the network only as the attempt its thread is at, and the
\* thread then waits for that attempt to end.
AttemptsInTurn ==
    \A m \in net' \ net :
        LET t == <<m.wid, m.to>> IN
          /\ th[t].st = "try"
          /\ th'[t].st = "wait"
          /\ m.att = th[t].attempt
          /\ th'[t].attempts = th[t].attempts + 1

\* An answer to the attempt its thread waits for ends the sequence, whatever
\* applied says, and an ended sequence sends nothing more.
StopsAtFirstAnswer ==
    /\ \A n \in NodeIds : \A w \in Workers(n) :
         LET h == hs[n][w]
             t == <<h.wid, n>> IN
           (h.pc = "rep_return" /\ hs'[n][w].pc = "idle"
              /\ th[t].st = "wait" /\ th[t].attempt = h.att) =>
               /\ th'[t].st = "done"
               /\ th'[t].result = [status |-> "ok", applied |-> h.applied]
    /\ \A t \in Threads :
         th[t].st = "done" =>
             /\ th'[t] = th[t]
             /\ \A m \in net' \ net : <<m.wid, m.to>> # t

\* A thread is past every request it has sent, and has sent each attempt once.
OneAttemptAtATime ==
    \A t \in Threads :
        /\ \A m \in net : (m.wid = t[1] /\ m.to = t[2]) => m.att <= th[t].attempt
        /\ th[t].attempts <= th[t].attempt + 1
        /\ th[t].st = "wait" => th[t].attempts = th[t].attempt + 1

\* C15: the attempts of one delivery sequence are strictly sequential, and the
\* sequence stops at the first answer with status 200, an answer with
\* applied = false included: no attempt follows it.
C15_SequentialUntilAnswer ==
    [](OneAttemptAtATime) /\ [][AttemptsInTurn /\ StopsAtFirstAnswer]_vars

\* A sequence ended by an answer with applied = false, after an earlier attempt
\* of it had timed out.
C15_Witness ==
    \E t \in Threads :
        /\ th[t].st = "done"
        /\ th[t].result.applied = FALSE
        /\ th[t].attempts = 2

\* C16: once a node has processed a replicated write with timestamp t, its
\* clock is at least t + 1 and every local write it makes afterwards gets a
\* timestamp greater than t.
C16_HappenedBefore ==
    \A n \in NodeIds : \A i \in landed[n] :
        /\ clock[n] >= writes[i].timestamp + 1
        /\ \A j \in 1..Len(writes) :
             (writes[j].node = n /\ i \in writes[j].seen) =>
                 writes[j].timestamp > writes[i].timestamp

\* A node made its first write after a replicated write had landed at it, and
\* the write got the timestamp after the one the landing left on the clock.
C16_Witness ==
    \E i, j \in 1..Len(writes) :
        /\ i \in writes[j].seen
        /\ writes[j].timestamp = writes[i].timestamp + 2
        /\ \A k \in 1..Len(writes) : (k # j) => writes[k].node # writes[j].node

\* C17: in every reachable state the timestamp of every entry in a node's
\* store is at most that node's clock.
C17_StoreBelowClock ==
    \A n \in NodeIds : \A key \in DOMAIN store[n] :
        store[n][key].timestamp <= clock[n]

\* A node stores an entry another node wrote, with a timestamp above the
\* number of events the node has had itself.
C17_Witness ==
    \E n \in NodeIds : \E key \in DOMAIN store[n] :
        /\ store[n][key].node # n
        /\ store[n][key].timestamp = 2
        /\ clock[n] = 3

\* Every delivery thread and every request in flight carries the write as its
\* author made it, names the author as source_node, and goes to one of the
\* author's peers.
SentByAuthor ==
    /\ \A t \in Threads :
         /\ th[t].data.source_node = writes[t[1]].node
         /\ th[t].data.key = writes[t[1]].key
         /\ th[t].data.timestamp = writes[t[1]].timestamp
         /\ t[2] \in Peers(writes[t[1]].node)
    /\ \A m \in net :
         /\ m.data.source_node = writes[m.wid].node
         /\ m.to \in Peers(m.data.source_node)

\* Delivery threads start in handle_put only.
StartedByPutOnly ==
    DOMAIN th' # DOMAIN th =>
        \E n \in NodeIds : \E w \in Workers(n) :
            /\ hs[n][w].pc = "put_replicate"
            /\ hs'[n][w].pc = "put_return"
            /\ DOMAIN th' = DOMAIN th \cup {<<hs[n][w].wid, p>> : p \in Peers(n)}

\* C19: a replicated write is never forwarded: handling an inbound replication
\* starts no delivery, and every replication message comes from the node that
\* authored the write, which it names as source_node.
C19_NeverForwarded == [](SentByAuthor) /\ [][StartedByPutOnly]_vars

\* A peer applied a replicated write and answered, and the only deliveries of
\* that write are the author's.
C19_Witness ==
    \E t \in Threads :
        /\ th[t].st = "done"
        /\ th[t].result.applied
        /\ t[1] \in landed[t[2]]
        /\ \A u \in Threads : u[1] = t[1] => u[2] # writes[t[1]].node

\* The writes of a key carry pairwise distinct timestamps.
DistinctTimestamps(key) ==
    \A i, j \in 1..Len(writes) :
        (i # j /\ writes[i].key = key /\ writes[j].key = key) =>
            writes[i].timestamp # writes[j].timestamp

\* The write of a key with the greatest timestamp.
IsNewest(i) ==
    \A j \in 1..Len(writes) :
        writes[j].key = writes[i].key => writes[j].timestamp <= writes[i].timestamp

\* C20: when the writes of a key carry pairwise distinct timestamps and every
\* delivery to every peer has succeeded, every node stores for the key the
\* value, timestamp and origin of the write with the greatest timestamp.
C20_Convergence ==
    \A i \in 1..Len(writes) :
        (AllDelivered /\ DistinctTimestamps(writes[i].key) /\ IsNewest(i)) =>
            \A n \in NodeIds :
                get(store[n], writes[i].key) =
                    [value |-> writes[i].value, timestamp |-> writes[i].timestamp,
                     node |-> writes[i].node]

\* Two nodes wrote the same key with different timestamps and every delivery
\* has succeeded.
C20_Witness ==
    /\ AllDelivered
    /\ \E i, j \in 1..Len(writes) :
         /\ writes[i].node # writes[j].node
         /\ writes[i].key = writes[j].key
         /\ writes[i].timestamp < writes[j].timestamp
         /\ DistinctTimestamps(writes[i].key)

====
